---- MODULE Spec2Model ----
(***************************************************************************)
(* Model of the bounded-concurrency download stage, src/download.go:       *)
(* the Downloader orchestrator loop, the transfer goroutine it starts per  *)
(* DownloadTask, the sized wait group that limits the transfer units, the  *)
(* two buffer pools and putMemory.                                         *)
(*                                                                         *)
(* Channels are modelled as rendezvous: a send action is the moment the    *)
(* peer accepts the value, and a sender whose send action has not fired    *)
(* is blocked on a slow sink.                                              *)
(***************************************************************************)
EXTENDS Integers, Sequences, FiniteSets, TLC

\* Number of descriptors the producer sends on tasksCh in one run.
MaxTasks == 3

\* src/download.go:37  EnvInt("MAX_IN_MEM", 96, ...), in KiB
maxMemObject == 96
\* src/download.go:42  sizedwaitgroup.New(16)
SwgLimit == 16
\* src/download.go:62  parts = 8
LargeParts == 8

\* src/download.go:60  8*1024*1024
LargeObject == 8 * 1024 * 1024
\* src/download.go:30,83  32*1024
SmallClass == 32 * 1024
MemThreshold == maxMemObject * 1024

\* Descriptor sizes the producer may send: one per size class of the code,
\* with the two thresholds themselves.
Sizes == {0, 1000, MemThreshold, LargeObject, LargeObject + 1}

Tasks == 1 .. MaxTasks

\* A nil []byte.
NilMem == [id |-> 0, len |-> 0, cap |-> 0]

VARIABLES
  pcO,           \* orchestrator position: select, break, add, wait, returned
  tasks,         \* Seq of the sizes received from tasksCh; Filename = index
  parts,         \* orchestrator local `parts`
  i,             \* orchestrator loop counter of the swg.Add loop
  swg,           \* units held in the sized wait group
  cancelled,     \* ctx.Done() is closed
  inputClosed,   \* tasksCh is closed by the producer
  closeCount,    \* number of close(doneCh) executed
  gpc,           \* goroutine position per task
  gparts,        \* goroutine argument `parts`
  gdi,           \* goroutine deferred-loop counter
  gmem,          \* goroutine local `mem`
  fetch,         \* what the goroutine's remote read did and returned
  doneOut,       \* per task: Seq of WorkFile sent on doneCh
  errOut,        \* per task: Seq of ErrorEvent sent on fileErrCh
  DownloadedFiles, \* process-wide success counter
  bufPool32,     \* blocks in the <= 32 KiB pool
  bufPoolLarge,  \* blocks in the > 32 KiB pool
  consumerBufs   \* blocks the downstream consumer received and has not put back

vars == <<pcO, tasks, parts, i, swg, cancelled, inputClosed, closeCount,
          gpc, gparts, gdi, gmem, fetch, doneOut, errOut, DownloadedFiles,
          bufPool32, bufPoolLarge, consumerBufs>>

orchVars == <<pcO, tasks, parts, i>>
envVars == <<cancelled, inputClosed>>
poolVars == <<bufPool32, bufPoolLarge, consumerBufs>>
outVars == <<doneOut, errOut, DownloadedFiles>>
gorVars == <<gpc, gparts, gdi, gmem, fetch>>

NoFetch == [kind |-> "none", reads |-> 0, n |-> 0, err |-> FALSE, failed |-> 0]

Init ==
  /\ pcO = "select"
  /\ tasks = <<>>
  /\ parts = 0
  /\ i = 0
  /\ swg = 0
  /\ cancelled = FALSE
  /\ inputClosed = FALSE
  /\ closeCount = 0
  /\ gpc = [t \in Tasks |-> "none"]
  /\ gparts = [t \in Tasks |-> 0]
  /\ gdi = [t \in Tasks |-> 0]
  /\ gmem = [t \in Tasks |-> NilMem]
  /\ fetch = [t \in Tasks |-> NoFetch]
  /\ doneOut = [t \in Tasks |-> <<>>]
  /\ errOut = [t \in Tasks |-> <<>>]
  /\ DownloadedFiles = 0
  /\ bufPool32 = {}
  /\ bufPoolLarge = {}
  /\ consumerBufs = {}

----------------------------------------------------------------------------
\* Environment: the context and the producer.

\* ctx is cancelled.
Cancel ==
  /\ ~cancelled
  /\ cancelled' = TRUE
  /\ UNCHANGED <<orchVars, swg, inputClosed, closeCount, gorVars, outVars, poolVars>>

\* The producer closes tasksCh.
CloseInput ==
  /\ ~inputClosed
  /\ inputClosed' = TRUE
  /\ UNCHANGED <<orchVars, swg, cancelled, closeCount, gorVars, outVars, poolVars>>

----------------------------------------------------------------------------
\* The orchestrator loop of Downloader.

\* Mutant of PartsFor: the large-object test written with >= for >.
PartsFor_AtLeast(size) == IF size >= LargeObject THEN LargeParts ELSE 1

\* parts := 1; if task.Size > 8 MiB then parts = 8
PartsFor(size) == IF size > LargeObject THEN LargeParts ELSE 1

\* select case <-ctx.Done(): break  (leaves the select, not the for loop)
SelectCtxDone ==
  /\ pcO = "select"
  /\ cancelled
  /\ pcO' = "break"
  /\ UNCHANGED <<tasks, parts, i, swg, envVars, closeCount, gorVars, outVars, poolVars>>

\* after the select statement the for loop starts its next iteration
LoopAgain ==
  /\ pcO = "break"
  /\ pcO' = "select"
  /\ UNCHANGED <<tasks, parts, i, swg, envVars, closeCount, gorVars, outVars, poolVars>>

\* select case task, ok := <-tasksCh with ok: compute parts, enter the Add loop
RecvTask ==
  /\ pcO = "select"
  /\ ~inputClosed
  /\ Len(tasks) < MaxTasks
  /\ \E size \in Sizes :
       /\ tasks' = Append(tasks, size)
       /\ parts' = PartsFor(size)
  /\ i' = 0
  /\ pcO' = "add"
  /\ UNCHANGED <<swg, envVars, closeCount, gorVars, outVars, poolVars>>

\* Mutant of RecvClosed: the !ok case leaves the select only, like the
\* ctx.Done() case.
RecvClosed_BreakOnly ==
  /\ pcO = "select"
  /\ inputClosed
  /\ pcO' = "break"
  /\ UNCHANGED <<tasks, parts, i, swg, envVars, closeCount, gorVars, outVars, poolVars>>

\* select case task, ok := <-tasksCh with !ok: go to swg.Wait()
RecvClosed ==
  /\ pcO = "select"
  /\ inputClosed
  /\ pcO' = "wait"
  /\ UNCHANGED <<tasks, parts, i, swg, envVars, closeCount, gorVars, outVars, poolVars>>

\* Mutant of SwgCanAdd: a wait group that never blocks an Add.
SwgCanAdd_Unbounded == TRUE

\* swg.Add() can proceed: there is room in the sized wait group
SwgCanAdd == swg < SwgLimit

\* one iteration of: for i := 0; i < parts; i++ { swg.Add() }
SwgAdd ==
  /\ pcO = "add"
  /\ i < parts
  /\ SwgCanAdd
  /\ swg' = swg + 1
  /\ i' = i + 1
  /\ UNCHANGED <<pcO, tasks, parts, envVars, closeCount, gorVars, outVars, poolVars>>

\* Mutant of CanDispatch: the transfer is run in the orchestrator's own thread,
\* which goes on only when every earlier unit has finished.
CanDispatch_Sync ==
  /\ i = parts
  /\ \A t \in 1 .. Len(tasks) : gpc[t] \in {"none", "exit"}

\* the orchestrator may start the goroutine: the Add loop is over
CanDispatch == i = parts

\* go func(task, parts) {...}(task, parts)
Dispatch ==
  /\ pcO = "add"
  /\ CanDispatch
  /\ gpc' = [gpc EXCEPT ![Len(tasks)] = "start"]
  /\ gparts' = [gparts EXCEPT ![Len(tasks)] = parts]
  /\ pcO' = "select"
  /\ UNCHANGED <<tasks, parts, i, swg, envVars, closeCount, gdi, gmem, fetch, outVars, poolVars>>

\* Mutant of SwgWaitDone: Downloader returns without waiting for the units.
SwgWaitDone_NoWait == TRUE

\* swg.Wait() returns: no unit is held
SwgWaitDone == swg = 0

\* swg.Wait() returns, Downloader returns, the deferred close(doneCh) runs
WaitAndReturn ==
  /\ pcO = "wait"
  /\ SwgWaitDone
  /\ pcO' = "returned"
  /\ closeCount' = closeCount + 1
  /\ UNCHANGED <<tasks, parts, i, swg, envVars, gorVars, outVars, poolVars>>

----------------------------------------------------------------------------
\* The buffer pools and putMemory.

\* Capacity of a block the <= 32 KiB pool allocates on a miss.
Cap32 == SmallClass
\* Capacity of a block the > 32 KiB pool allocates on a miss.
CapLarge == MemThreshold

\* A block newly allocated for task t; a task allocates at most one block, so
\* the task's index identifies it.
NewBlock(t, capacity) == [id |-> t, len |-> capacity, cap |-> capacity]

\* bufPool32.Get() / bufPoolLarge.Get() by task t: the blocks it may return,
\* any pooled block of the class or a newly allocated one.
PoolGet(pool, capacity, t) == pool \cup {NewBlock(t, capacity)}

\* Mutant of putMemory: the class test written with < for <=.
putMemory_Below(mem, p32, pLarge) ==
  LET full == [mem EXCEPT !.len = mem.cap] IN
  IF full.len < SmallClass
    THEN /\ bufPool32' = p32 \cup {full}
         /\ bufPoolLarge' = pLarge
    ELSE /\ bufPool32' = p32
         /\ bufPoolLarge' = pLarge \cup {full}

\* mem = mem[:cap(mem)]; if len(mem) <= 32*1024 then bufPool32.Put(mem)
\* else bufPoolLarge.Put(mem).  The pools before the Put are given.
putMemory(mem, p32, pLarge) ==
  LET full == [mem EXCEPT !.len = mem.cap] IN
  IF full.len <= SmallClass
    THEN /\ bufPool32' = p32 \cup {full}
         /\ bufPoolLarge' = pLarge
    ELSE /\ bufPool32' = p32
         /\ bufPoolLarge' = pLarge \cup {full}

\* The downstream consumer hands a received block back with putMemory.
ConsumerPut ==
  \E b \in consumerBufs :
    /\ putMemory(b, bufPool32, bufPoolLarge)
    /\ consumerBufs' = consumerBufs \ {b}
    /\ UNCHANGED <<orchVars, swg, envVars, closeCount, gorVars, outVars>>

----------------------------------------------------------------------------
\* The transfer goroutine of one task.

WorkFile(t, tempFile, bytes) ==
  [Size |-> tasks[t], Filename |-> t, TempFile |-> tempFile, Bytes |-> bytes]

ErrorEvent(t, err) ==
  [Size |-> tasks[t], Filename |-> t, Err |-> err]

\* The function body of the goroutine returns (a return statement or its end):
\* its locals mem, n, err die and the deferred function starts.
Return(t) ==
  /\ gpc' = [gpc EXCEPT ![t] = "defer"]
  /\ gmem' = [gmem EXCEPT ![t] = NilMem]
  /\ fetch' = [fetch EXCEPT ![t] = NoFetch]

\* Mutant of IsEmpty: the size-0 branch is missing.
IsEmpty_Never(size) == FALSE

\* task.Size == 0
IsEmpty(size) == size = 0
\* Mutant of InMemory: the threshold test written with < for <=.
InMemory_Below(size) == size # 0 /\ size < maxMemObject * 1024

\* task.Size <= maxMemObject*1024 (after the size-0 test)
InMemory(size) == ~IsEmpty(size) /\ size <= maxMemObject * 1024
\* the else branch: downloadObjectInParts
InParts(size) == ~IsEmpty(size) /\ ~InMemory(size)

\* doneCh <- &WorkFile{Size, Filename}
SendEmpty(t) ==
  /\ gpc[t] = "start"
  /\ IsEmpty(tasks[t])
  /\ doneOut' = [doneOut EXCEPT ![t] = Append(@, WorkFile(t, "", NilMem))]
  /\ gpc' = [gpc EXCEPT ![t] = "inc"]
  /\ UNCHANGED <<orchVars, swg, envVars, closeCount, gparts, gdi, gmem, fetch,
                 errOut, DownloadedFiles, poolVars>>

\* the pool class chosen by task.Size <= 32*1024
UseSmallPool(size) == size <= SmallClass

\* mem = bufPool32.Get() or bufPoolLarge.Get()
GetMemory(t) ==
  /\ gpc[t] = "start"
  /\ InMemory(tasks[t])
  /\ IF UseSmallPool(tasks[t])
       THEN \E mem \in PoolGet(bufPool32, Cap32, t) :
              /\ bufPool32' = bufPool32 \ {mem}
              /\ bufPoolLarge' = bufPoolLarge
              /\ gmem' = [gmem EXCEPT ![t] = mem]
       ELSE \E mem \in PoolGet(bufPoolLarge, CapLarge, t) :
              /\ bufPoolLarge' = bufPoolLarge \ {mem}
              /\ bufPool32' = bufPool32
              /\ gmem' = [gmem EXCEPT ![t] = mem]
  /\ gpc' = [gpc EXCEPT ![t] = "download"]
  /\ UNCHANGED <<orchVars, swg, envVars, closeCount, gparts, gdi, fetch, outVars, consumerBufs>>

\* Byte counts downloadObjectToBuffer may report for an object declared `size`
\* read into a buffer of length `len`: the declared size, one less, one more.
ReadCounts(size, len) == {n \in {size - 1, size, size + 1} : 0 <= n /\ n <= len}

\* n, err := downloadObjectToBuffer(ctx, srcBucket, task.Filename, mem): the
\* results the read may return, an error or a byte count without error.
\* The read changes nothing the other processes see and its result is kept in
\* n and err, so it is taken in one step with the channel send that follows it.
DownloadToBuffer(size, mem) ==
  {[kind |-> "buffer", reads |-> 1, n |-> 0, err |-> TRUE, failed |-> 0]}
  \cup {[kind |-> "buffer", reads |-> 1, n |-> n, err |-> FALSE, failed |-> 0] :
          n \in ReadCounts(size, mem.len)}

\* if err != nil { fileErrCh <- &ErrorEvent{...}
SendErrDownload(t) ==
  /\ gpc[t] = "download"
  /\ \E r \in DownloadToBuffer(tasks[t], gmem[t]) :
       /\ r.err
       /\ fetch' = [fetch EXCEPT ![t] = r]
  /\ errOut' = [errOut EXCEPT ![t] = Append(@, ErrorEvent(t, "memory"))]
  /\ gpc' = [gpc EXCEPT ![t] = "put"]
  /\ UNCHANGED <<orchVars, swg, envVars, closeCount, gparts, gdi, gmem,
                 doneOut, DownloadedFiles, poolVars>>

\* Mutant of ShortWrite: the byte count is not compared with the size.
ShortWrite_Never(n, size) == FALSE

\* Mutant of ShortWrite: only a short count is refused, a long one is accepted.
ShortWrite_OnlyShort(n, size) == n < size

\* int64(n) != task.Size
ShortWrite(n, size) == n # size

\* Mutant of SendErrShort: the size mismatch is not reported.
SendErrShort_Silent(t) ==
  /\ gpc[t] = "download"
  /\ \E r \in DownloadToBuffer(tasks[t], gmem[t]) :
       /\ ~r.err
       /\ r.n # tasks[t]
       /\ fetch' = [fetch EXCEPT ![t] = r]
  /\ gpc' = [gpc EXCEPT ![t] = "put"]
  /\ UNCHANGED <<orchVars, swg, envVars, closeCount, gparts, gdi, gmem,
                 outVars, poolVars>>

\* if int64(n) != task.Size { fileErrCh <- &ErrorEvent{...}
SendErrShort(t) ==
  /\ gpc[t] = "download"
  /\ \E r \in DownloadToBuffer(tasks[t], gmem[t]) :
       /\ ~r.err
       /\ ShortWrite(r.n, tasks[t])
       /\ fetch' = [fetch EXCEPT ![t] = r]
  /\ errOut' = [errOut EXCEPT ![t] = Append(@, ErrorEvent(t, "short"))]
  /\ gpc' = [gpc EXCEPT ![t] = "put"]
  /\ UNCHANGED <<orchVars, swg, envVars, closeCount, gparts, gdi, gmem,
                 doneOut, DownloadedFiles, poolVars>>

\* Mutant of PutOnFailure: the failure branch returns without putMemory(mem).
PutOnFailure_Leak(t) ==
  /\ gpc[t] = "put"
  /\ UNCHANGED <<bufPool32, bufPoolLarge>>
  /\ Return(t)
  /\ UNCHANGED <<orchVars, swg, envVars, closeCount, gparts, gdi,
                 outVars, consumerBufs>>

\* putMemory(mem); return   (both failure branches of the in-memory path)
PutOnFailure(t) ==
  /\ gpc[t] = "put"
  /\ putMemory(gmem[t], bufPool32, bufPoolLarge)
  /\ Return(t)
  /\ UNCHANGED <<orchVars, swg, envVars, closeCount, gparts, gdi,
                 outVars, consumerBufs>>

\* Mutant of SendBytes: the whole pooled block is sent, not mem[:n].
SendBytes_WholeBuffer(t) ==
  /\ gpc[t] = "download"
  /\ \E r \in DownloadToBuffer(tasks[t], gmem[t]) :
       /\ ~r.err
       /\ ~ShortWrite(r.n, tasks[t])
       /\ fetch' = [fetch EXCEPT ![t] = r]
       /\ LET bytes == gmem[t] IN
            /\ doneOut' = [doneOut EXCEPT ![t] = Append(@, WorkFile(t, "", bytes))]
            /\ consumerBufs' = consumerBufs \cup {bytes}
  /\ gpc' = [gpc EXCEPT ![t] = "inc"]
  /\ UNCHANGED <<orchVars, swg, envVars, closeCount, gparts, gdi, gmem,
                 errOut, DownloadedFiles, bufPool32, bufPoolLarge>>

\* doneCh <- &WorkFile{Size, Filename, Bytes: mem[:n]}
SendBytes(t) ==
  /\ gpc[t] = "download"
  /\ \E r \in DownloadToBuffer(tasks[t], gmem[t]) :
       /\ ~r.err
       /\ ~ShortWrite(r.n, tasks[t])
       /\ fetch' = [fetch EXCEPT ![t] = r]
       /\ LET bytes == [gmem[t] EXCEPT !.len = r.n] IN
            /\ doneOut' = [doneOut EXCEPT ![t] = Append(@, WorkFile(t, "", bytes))]
            /\ consumerBufs' = consumerBufs \cup {bytes}
  /\ gpc' = [gpc EXCEPT ![t] = "inc"]
  /\ UNCHANGED <<orchVars, swg, envVars, closeCount, gparts, gdi, gmem,
                 errOut, DownloadedFiles, bufPool32, bufPoolLarge>>

\* Numbers of failing parts considered for a fetch in p parts.
FailChoices(p) == {0, 1, p}

\* downloadObjectInParts(ctx, srcBucket, name, size, p): the results it may
\* return.  It makes one range read per part, all into one temporary file, and
\* returns an error iff some part failed.
downloadObjectInParts(size, p) ==
  {[kind |-> "parts", reads |-> p, n |-> size, err |-> failed > 0, failed |-> failed] :
     failed \in FailChoices(p)}

\* tempFilePath, err := downloadObjectInParts(ctx, srcBucket, task.Filename, task.Size, parts)
DownloadInParts(t) ==
  /\ gpc[t] = "start"
  /\ InParts(tasks[t])
  /\ \E r \in downloadObjectInParts(tasks[t], gparts[t]) :
       fetch' = [fetch EXCEPT ![t] = r]
  /\ gpc' = [gpc EXCEPT ![t] = "assembled"]
  /\ UNCHANGED <<orchVars, swg, envVars, closeCount, gparts, gdi, gmem, outVars, poolVars>>

\* Mutant of SendErrParts: the failure of one object also closes doneCh.
SendErrParts_Abort(t) ==
  /\ gpc[t] = "assembled"
  /\ fetch[t].err
  /\ errOut' = [errOut EXCEPT ![t] = Append(@, [Size |-> tasks[t], Filename |-> t,
                                                Err |-> "tempfile"])]
  /\ closeCount' = closeCount + 1
  /\ Return(t)
  /\ UNCHANGED <<orchVars, swg, envVars, gparts, gdi,
                 doneOut, DownloadedFiles, poolVars>>

\* if err != nil { fileErrCh <- &ErrorEvent{...}; return }
SendErrParts(t) ==
  /\ gpc[t] = "assembled"
  /\ fetch[t].err
  /\ errOut' = [errOut EXCEPT ![t] = Append(@, ErrorEvent(t, "tempfile"))]
  /\ Return(t)
  /\ UNCHANGED <<orchVars, swg, envVars, closeCount, gparts, gdi,
                 doneOut, DownloadedFiles, poolVars>>

\* Mutant of SendTempFile: the temporary file is sent whatever err is.
SendTempFile_IgnoreErr(t) ==
  /\ gpc[t] = "assembled"
  /\ doneOut' = [doneOut EXCEPT ![t] = Append(@, [Size |-> tasks[t], Filename |-> t,
                                                  TempFile |-> "tmp", Bytes |-> NilMem])]
  /\ gpc' = [gpc EXCEPT ![t] = "inc"]
  /\ UNCHANGED <<orchVars, swg, envVars, closeCount, gparts, gdi, gmem, fetch,
                 errOut, DownloadedFiles, poolVars>>

\* doneCh <- &WorkFile{Size, Filename, TempFile: tempFilePath}
SendTempFile(t) ==
  /\ gpc[t] = "assembled"
  /\ ~fetch[t].err
  /\ doneOut' = [doneOut EXCEPT ![t] = Append(@, WorkFile(t, "tmp", NilMem))]
  /\ gpc' = [gpc EXCEPT ![t] = "inc"]
  /\ UNCHANGED <<orchVars, swg, envVars, closeCount, gparts, gdi, gmem, fetch,
                 errOut, DownloadedFiles, poolVars>>

\* Mutant of CountSuccess: a plain read-modify-write, whose update is lost when
\* another unit is incrementing at the same time.
CountSuccess_LostUpdate(t) ==
  /\ gpc[t] = "inc"
  /\ DownloadedFiles' =
       IF \E u \in Tasks : u # t /\ gpc[u] = "inc"
         THEN DownloadedFiles ELSE DownloadedFiles + 1
  /\ Return(t)
  /\ UNCHANGED <<orchVars, swg, envVars, closeCount, gparts, gdi,
                 doneOut, errOut, poolVars>>

\* atomic.AddInt64(&DownloadedFiles, 1)
CountSuccess(t) ==
  /\ gpc[t] = "inc"
  /\ DownloadedFiles' = DownloadedFiles + 1
  /\ Return(t)
  /\ UNCHANGED <<orchVars, swg, envVars, closeCount, gparts, gdi,
                 doneOut, errOut, poolVars>>

\* Mutant of DeferOver: a single deferred swg.Done() for the parts reserved.
DeferOver_Once(released, p) == released >= 1

\* the deferred loop has released every unit: the goroutine exits
DeferOver(released, p) == released = p

\* Mutant of SwgDone: the deferred loop runs without releasing the limiter.
SwgDone_NoRelease(t) ==
  /\ gpc[t] = "defer"
  /\ swg' = swg
  /\ gdi' = [gdi EXCEPT ![t] = @ + 1]
  /\ gpc' = [gpc EXCEPT ![t] = IF DeferOver(gdi[t] + 1, gparts[t]) THEN "exit" ELSE "defer"]
  /\ UNCHANGED <<orchVars, envVars, closeCount, gparts, gmem, fetch, outVars, poolVars>>

\* one iteration of the deferred: for i := 0; i < parts; i++ { swg.Done() }
SwgDone(t) ==
  /\ gpc[t] = "defer"
  /\ swg' = swg - 1
  /\ gdi' = [gdi EXCEPT ![t] = @ + 1]
  /\ gpc' = [gpc EXCEPT ![t] = IF DeferOver(gdi[t] + 1, gparts[t]) THEN "exit" ELSE "defer"]
  /\ UNCHANGED <<orchVars, envVars, closeCount, gparts, gmem, fetch, outVars, poolVars>>

Transfer(t) ==
  \/ SendEmpty(t)
  \/ GetMemory(t)
  \/ SendErrDownload(t)
  \/ SendErrShort(t)
  \/ PutOnFailure(t)
  \/ SendBytes(t)
  \/ DownloadInParts(t)
  \/ SendErrParts(t)
  \/ SendTempFile(t)
  \/ CountSuccess(t)
  \/ SwgDone(t)

----------------------------------------------------------------------------
Next ==
  \/ Cancel
  \/ CloseInput
  \/ SelectCtxDone
  \/ LoopAgain
  \/ RecvTask
  \/ RecvClosed
  \/ SwgAdd
  \/ Dispatch
  \/ WaitAndReturn
  \/ ConsumerPut
  \/ \E t \in Tasks : Transfer(t)

Spec == Init /\ [][Next]_vars

----------------------------------------------------------------------------
\* The Downloader under fair scheduling, for the progress properties.

\* Number of descriptors the producer sends in the runs checked for progress.
LiveTasks == 2

\* select case task, ok := <-tasksCh with ok, on an input of LiveTasks
\* descriptors.
RecvTaskLive ==
  /\ Len(tasks) < LiveTasks
  /\ RecvTask

NextLive ==
  \/ Cancel
  \/ CloseInput
  \/ SelectCtxDone
  \/ LoopAgain
  \/ RecvTaskLive
  \/ RecvClosed
  \/ SwgAdd
  \/ Dispatch
  \/ WaitAndReturn
  \/ ConsumerPut
  \/ \E t \in Tasks : Transfer(t)

\* The scheduler runs every goroutine that can take a step (weak fairness of
\* the orchestrator's steps and of every transfer goroutine, whose channel
\* sends are always received), and the select picks among its ready cases at
\* random, so a case that is ready again and again is taken (strong fairness
\* of the !ok case).  Cancellation, the producer and the consumer are free.
Fairness ==
  /\ WF_vars(SelectCtxDone)
  /\ WF_vars(LoopAgain)
  /\ SF_vars(RecvClosed)
  /\ WF_vars(SwgAdd)
  /\ WF_vars(Dispatch)
  /\ WF_vars(WaitAndReturn)
  /\ \A t \in Tasks : WF_vars(Transfer(t))

LiveSpec == Init /\ [][NextLive]_vars /\ Fairness

\* The sizes of the runs checked for the admission: objects fetched in one
\* part and in eight, so that three of them fill the limiter.
AdmitSizes == {LargeObject, LargeObject + 1}

\* select case task, ok := <-tasksCh with ok, on an input of such objects.
RecvTaskAdmit ==
  /\ RecvTask
  /\ tasks'[Len(tasks')] \in AdmitSizes

\* The transfer goroutine of an object fetched in parts.
TransferParts(t) ==
  \/ DownloadInParts(t)
  \/ SendErrParts(t)
  \/ SendTempFile(t)
  \/ CountSuccess(t)
  \/ SwgDone(t)

NextAdmit ==
  \/ Cancel
  \/ CloseInput
  \/ SelectCtxDone
  \/ LoopAgain
  \/ RecvTaskAdmit
  \/ RecvClosed
  \/ SwgAdd
  \/ Dispatch
  \/ WaitAndReturn
  \/ \E t \in Tasks : TransferParts(t)

\* Every goroutine that can take a step is run: the orchestrator's Add loop
\* and go statement, and every transfer goroutine up to its exit.
FairnessAdmit ==
  /\ WF_vars(SwgAdd)
  /\ WF_vars(Dispatch)
  /\ \A t \in Tasks : WF_vars(TransferParts(t))

AdmitSpec == Init /\ [][NextAdmit]_vars /\ FairnessAdmit

----------------------------------------------------------------------------
\* Vocabulary of the properties.

\* The tasks received so far.
Received == 1 .. Len(tasks)

\* Positions of a goroutine whose function body is running.
Transferring == {"start", "download", "put", "assembled", "inc"}

\* Part count the contract gives an object: 1 up to 8 MiB, 8 above.
ExpectedParts(size) == IF size <= 8388608 THEN 1 ELSE 8

\* Limiter units task t holds: those reserved so far while the orchestrator is
\* reserving for it, its part count while it transfers, what the deferred loop
\* has not released yet afterwards.
UnitsOf(t) ==
  IF t \notin Received THEN 0
  ELSE IF gpc[t] = "none" THEN i
  ELSE IF gpc[t] \in Transferring THEN ExpectedParts(tasks[t])
  ELSE IF gpc[t] = "defer" THEN ExpectedParts(tasks[t]) - gdi[t]
  ELSE 0

RECURSIVE SumUnits(_)
SumUnits(k) == IF k = 0 THEN 0 ELSE UnitsOf(k) + SumUnits(k - 1)

\* Units of the objects whose transfer is active.
ActiveUnits(k) ==
  Cardinality({t \in 1 .. k : gpc[t] \in Transferring /\ tasks[t] <= 8388608})
  + 8 * Cardinality({t \in 1 .. k : gpc[t] \in Transferring /\ tasks[t] > 8388608})

\* Outcomes task t has sent so far.
Outcomes(t) == Len(doneOut[t]) + Len(errOut[t])

----------------------------------------------------------------------------
\* C1: under every interleaving of the orchestrator and the transfer
\* goroutines, the limiter units held (1 per active object of at most 8 MiB,
\* 8 per larger one) never exceed the ceiling of 16.
C1_LimiterCeiling ==
  /\ swg <= 16
  /\ ActiveUnits(MaxTasks) <= 16

\* C1 witness: the limiter is full with two large objects in transfer and the
\* orchestrator is blocked reserving for a third descriptor.
C1_Witness ==
  /\ swg = 16
  /\ pcO = "add"
  /\ i < parts
  /\ ActiveUnits(MaxTasks) = 16

\* C2: every dispatched descriptor resolves to exactly one outcome: when its
\* goroutine has left its function body it has sent exactly one WorkFile or
\* exactly one ErrorEvent, never both; before that it has sent at most one.
C2_ExactlyOneOutcome ==
  \A t \in Tasks :
    /\ Outcomes(t) <= 1
    /\ gpc[t] \in {"defer", "exit"} => Outcomes(t) = 1
    /\ gpc[t] \in {"none", "start", "download", "assembled"} => Outcomes(t) = 0

\* C2 witness: one goroutine has exited after a WorkFile and another after an
\* ErrorEvent.
C2_Witness ==
  \E t, u \in Tasks :
    /\ gpc[t] = "exit" /\ Len(doneOut[t]) = 1 /\ errOut[t] = <<>>
    /\ gpc[u] = "exit" /\ Len(errOut[u]) = 1 /\ doneOut[u] = <<>>

\* C3: doneCh is closed once, only when tasksCh is closed and every dispatched
\* unit has finished (no unit held); it is never closed while a unit is in
\* flight and nothing is sent on it after the close: in every state in which
\* doneCh is closed, Downloader has returned and every goroutine has exited.
C3_CloseAfterDrain ==
  /\ closeCount <= 1
  /\ closeCount = 1 =>
       /\ inputClosed
       /\ pcO = "returned"
       /\ swg = 0
       /\ \A t \in Received : gpc[t] = "exit"
  /\ pcO = "returned" => closeCount = 1

\* C3 witness: doneCh is closed after MaxTasks objects were dispatched and
\* have sent their outcomes.
C3_Witness ==
  /\ closeCount = 1
  /\ Len(tasks) = MaxTasks
  /\ \E t \in Tasks : doneOut[t] # <<>>

\* C4: once ctx.Done() has fired no descriptor is received from tasksCh,
\* reserved for or dispatched.
C4_NoAdmissionAfterCancel ==
  [][ cancelled => tasks' = tasks ]_vars

\* C5: reservation and release are paired on every exit path: the units held
\* always equal the sum over the objects of the units each holds (its part
\* count while it transfers), and are 0 when every unit has finished.
C5_PairedRelease ==
  /\ swg = SumUnits(MaxTasks)
  /\ (pcO # "add" /\ \A t \in Received : gpc[t] = "exit") => swg = 0
  /\ \A t \in Tasks : gpc[t] = "exit" => gdi[t] = ExpectedParts(tasks[t])

\* C5 witness: three objects have finished, one of more than 8 MiB by a
\* failure and one by a success, and no unit is held.
C5_Witness ==
  /\ swg = 0
  /\ Len(tasks) = MaxTasks
  /\ \A t \in Tasks : gpc[t] = "exit"
  /\ \E t \in Tasks : tasks[t] > 8388608 /\ errOut[t] # <<>>
  /\ \E t \in Tasks : doneOut[t] # <<>>

\* Size classes of the contract, written with the default thresholds.
SmallObject(size) == size > 0 /\ size <= 96 * 1024
BigObject(size) == size > 8388608

\* C6: an object with 0 < size <= memory threshold gets exactly one of a
\* success whose byte block has length == size, or a failure; a failure is
\* sent while the object holds its buffer, the buffer is then put back into
\* the pool of its class, and no success is sent for that object.
C6_InMemoryOutcome ==
  [][ \A t \in Tasks : (t \in 1 .. Len(tasks') /\ SmallObject(tasks'[t])) =>
        /\ Len(doneOut'[t]) + Len(errOut'[t]) <= 1
        /\ gpc'[t] \in {"defer", "exit"} => Len(doneOut'[t]) + Len(errOut'[t]) = 1
        /\ doneOut'[t] # <<>> =>
             /\ doneOut'[t][1].Bytes.id # 0
             /\ doneOut'[t][1].Bytes.len = tasks'[t]
             /\ doneOut'[t][1].TempFile = ""
             /\ errOut'[t] = <<>>
        /\ errOut'[t] # errOut[t] => gpc'[t] = "put" /\ gmem'[t].id # 0
        /\ (gpc[t] = "put" /\ gpc'[t] # "put") =>
             /\ errOut[t] # <<>>
             /\ doneOut'[t] = <<>>
             /\ IF tasks[t] <= 32768
                  THEN [gmem[t] EXCEPT !.len = gmem[t].cap] \in bufPool32'
                  ELSE [gmem[t] EXCEPT !.len = gmem[t].cap] \in bufPoolLarge' ]_vars

\* C6 witness: an in-memory object failed, a later unit holds the block that
\* object had allocated, and a third object succeeded with len(Bytes) == Size.
C6_Witness ==
  \E t, u, v \in Received :
    /\ t # u
    /\ SmallObject(tasks[t]) /\ errOut[t] # <<>> /\ gpc[t] = "exit"
    /\ gpc[u] = "download" /\ gmem[u].id = t
    /\ SmallObject(tasks[v]) /\ doneOut[v] # <<>>
    /\ doneOut[v][1].Bytes.len = tasks[v]

\* C7: for an object of more than 8 MiB a success (WorkFile with TempFile) is
\* sent only after all 8 parts completed without error; if one or more parts
\* failed, no success and exactly one ErrorEvent are sent for it, and its
\* temporary file is never sent on doneCh.
C7_AllPartsOrFailure ==
  [][ \A t \in Tasks : (t \in 1 .. Len(tasks') /\ BigObject(tasks'[t])) =>
        /\ doneOut'[t] # doneOut[t] =>
             /\ gpc[t] = "assembled"
             /\ fetch[t].kind = "parts" /\ fetch[t].reads = 8
             /\ fetch[t].failed = 0 /\ ~fetch[t].err
             /\ doneOut'[t] = <<[Size |-> tasks[t], Filename |-> t,
                                 TempFile |-> "tmp", Bytes |-> NilMem]>>
        /\ (gpc'[t] = "assembled" /\ fetch'[t].failed >= 1) =>
             doneOut'[t] = <<>> /\ errOut'[t] = <<>>
        /\ (gpc[t] = "assembled" /\ fetch[t].failed >= 1 /\ gpc'[t] # "assembled") =>
             Len(errOut'[t]) = 1 /\ doneOut'[t] = <<>>
        /\ errOut'[t] # <<>> => Len(errOut'[t]) = 1 /\ doneOut'[t] = <<>>
        /\ gpc'[t] \in {"defer", "exit"} => Len(doneOut'[t]) + Len(errOut'[t]) = 1 ]_vars

\* C7 witness: one object of more than 8 MiB has sent its single failure and
\* another, all of whose parts completed, its temporary file.
C7_Witness ==
  \E t, u \in Received :
    /\ BigObject(tasks[t]) /\ gpc[t] = "defer" /\ Len(errOut[t]) = 1 /\ doneOut[t] = <<>>
    /\ BigObject(tasks[u]) /\ gpc[u] = "inc" /\ Len(doneOut[u]) = 1 /\ fetch[u].failed = 0

\* C8: for a descriptor of size 0 exactly one success with empty storage
\* (neither Bytes nor TempFile) is sent; no remote read is made, no buffer is
\* acquired and no ErrorEvent is sent.
C8_EmptyObject ==
  \A t \in Received : tasks[t] = 0 =>
    /\ fetch[t].kind = "none" /\ fetch[t].reads = 0
    /\ gmem[t].id = 0
    /\ gpc[t] \notin {"download", "put", "assembled"}
    /\ errOut[t] = <<>>
    /\ gpc[t] \in {"none", "start"} => doneOut[t] = <<>>
    /\ gpc[t] \in {"inc", "defer", "exit"} =>
         doneOut[t] = <<[Size |-> 0, Filename |-> t, TempFile |-> "", Bytes |-> NilMem]>>

\* C8 witness: a size-0 object has finished and its empty WorkFile was sent.
C8_Witness ==
  \E t \in Received : tasks[t] = 0 /\ gpc[t] = "exit" /\ Len(doneOut[t]) = 1

\* C9: the part count of a descriptor is 1 up to 8 MiB and 8 above; exactly
\* that many units are reserved before its goroutine is dispatched, and no
\* transfer runs with fewer than its part count of units held for it.
C9_ReserveBeforeDispatch ==
  /\ \A t \in Received :
       /\ gpc[t] = "none" => (t = Len(tasks) /\ pcO = "add")
       /\ gpc[t] \in Transferring =>
            gparts[t] = ExpectedParts(tasks[t]) /\ gdi[t] = 0
  /\ pcO = "add" =>
       /\ parts = ExpectedParts(tasks[Len(tasks)])
       /\ i <= parts
  /\ (Len(tasks) > 0 /\ gpc[Len(tasks)] # "none") =>
       i = ExpectedParts(tasks[Len(tasks)])
  /\ ActiveUnits(MaxTasks) <= swg

\* C9 witness: an object of exactly 8 MiB was dispatched with 1 unit and an
\* object of more than 8 MiB with 8 units.
C9_Witness ==
  \E t, u \in Received :
    /\ tasks[t] = 8388608 /\ gpc[t] = "start" /\ gparts[t] = 1
    /\ tasks[u] > 8388608 /\ gpc[u] = "start" /\ gparts[u] = 8
    /\ swg = 9

\* C10 as stated: every object above the memory threshold is fetched with 8
\* range requests into a temporary file, every object with 0 < size <=
\* threshold whole into a pooled buffer.
C10_EightRangesAboveThreshold ==
  \A t \in Received :
    /\ (tasks[t] > 96 * 1024 /\ gpc[t] \in {"assembled", "inc"}) =>
         fetch[t].kind = "parts" /\ fetch[t].reads = 8
    /\ (SmallObject(tasks[t]) /\ gpc[t] \in {"put", "inc"}) =>
         fetch[t].kind = "buffer" /\ fetch[t].reads = 1 /\ gmem[t].id # 0

\* C10 amended: every object above the memory threshold is fetched into a
\* temporary file with as many range requests as its part count, 8 above
\* 8 MiB and 1 from the threshold up to 8 MiB; every object with
\* 0 < size <= threshold is fetched whole into a pooled buffer.
C10_RangesByPartCount ==
  \A t \in Received :
    /\ tasks[t] > 96 * 1024 =>
         /\ gpc[t] \notin {"download", "put"}
         /\ gmem[t].id = 0
         /\ gpc[t] \in {"assembled", "inc"} =>
              fetch[t].kind = "parts" /\ fetch[t].reads = ExpectedParts(tasks[t])
         /\ doneOut[t] # <<>> =>
              doneOut[t][1].TempFile = "tmp" /\ doneOut[t][1].Bytes.id = 0
    /\ SmallObject(tasks[t]) =>
         /\ gpc[t] # "assembled"
         /\ gpc[t] \in {"download", "put", "inc"} => gmem[t].id # 0
         /\ gpc[t] \in {"put", "inc"} => fetch[t].kind = "buffer" /\ fetch[t].reads = 1
         /\ doneOut[t] # <<>> =>
              doneOut[t][1].TempFile = "" /\ doneOut[t][1].Bytes.id # 0

\* C10 witness: an object of 8 MiB, above the memory threshold, was fetched
\* with one range request and its temporary file sent, and an object of
\* exactly the threshold was fetched into a buffer.
C10_Witness ==
  \E t, u \in Received :
    /\ tasks[t] = 8388608 /\ gpc[t] = "inc" /\ fetch[t].reads = 1
    /\ doneOut[t] # <<>> /\ doneOut[t][1].TempFile = "tmp"
    /\ tasks[u] = 96 * 1024 /\ gpc[u] = "inc" /\ fetch[u].kind = "buffer"

\* C11: buffers are returned to the pool matching their capacity: a pooled
\* block has its full capacity as length, a block of capacity <= 32 KiB is
\* never in the > 32 KiB pool and a block of capacity > 32 KiB never in the
\* <= 32 KiB pool, whatever was acquired and released, by a failure path or
\* by the consumer handing back a block sliced to length n.
C11_PoolMatchesCapacity ==
  /\ \A b \in bufPool32 : b.id # 0 /\ b.cap <= 32768 /\ b.len = b.cap
  /\ \A b \in bufPoolLarge : b.id # 0 /\ b.cap > 32768 /\ b.len = b.cap
  /\ \A t \in Received : gmem[t].id # 0 =>
       (gmem[t].cap <= 32768 <=> tasks[t] <= 32768)

\* C11 witness: the <= 32 KiB pool holds a block the consumer handed back
\* sliced to the object's length, and the > 32 KiB pool a block put back by a
\* failure path.
C11_Witness ==
  \E t, u \in Received :
    /\ doneOut[t] # <<>>
    /\ doneOut[t][1].Bytes.len < doneOut[t][1].Bytes.cap
    /\ \E b \in bufPool32 : b.id = doneOut[t][1].Bytes.id
    /\ tasks[u] > 32768 /\ errOut[u] # <<>>
    /\ \E c \in bufPoolLarge : c.id = u

\* Number of WorkFiles sent on doneCh so far.
RECURSIVE SentDone(_)
SentDone(k) == IF k = 0 THEN 0 ELSE Len(doneOut[k]) + SentDone(k - 1)

\* C12: DownloadedFiles is incremented exactly once per successfully
\* completed object and never for a failed one, without lost updates: it is
\* always the number of objects that sent a WorkFile and have passed their
\* increment, hence at most the number of WorkFiles sent, and equal to it when
\* doneCh is closed.
C12_SuccessCounter ==
  /\ DownloadedFiles =
       Cardinality({t \in Tasks : doneOut[t] # <<>> /\ gpc[t] \in {"defer", "exit"}})
  /\ DownloadedFiles <= SentDone(MaxTasks)
  /\ closeCount = 1 => DownloadedFiles = SentDone(MaxTasks)

\* C12 witness: doneCh is closed after two successes and one failure, and the
\* counter is 2.
C12_Witness ==
  /\ closeCount = 1
  /\ DownloadedFiles = 2
  /\ SentDone(MaxTasks) = 2
  /\ \E t \in Received : errOut[t] # <<>>

\* C13: a failure of one object is handled locally: the step that reports it
\* leaves the orchestrator where it is, does not close doneCh and changes
\* nothing of any other object; after a failure the orchestrator still admits
\* descriptors, and every other object resolves to its own single outcome.
C13_FailureIsLocal ==
  [][ /\ \A t \in Tasks : errOut'[t] # errOut[t] =>
           /\ pcO' = pcO /\ tasks' = tasks /\ parts' = parts /\ i' = i
           /\ closeCount' = closeCount
           /\ swg' = swg
           /\ DownloadedFiles' = DownloadedFiles
           /\ \A u \in Tasks \ {t} :
                /\ gpc'[u] = gpc[u] /\ gmem'[u] = gmem[u] /\ fetch'[u] = fetch[u]
                /\ gdi'[u] = gdi[u]
                /\ doneOut'[u] = doneOut[u] /\ errOut'[u] = errOut[u]
      /\ (\E t \in Tasks : errOut'[t] # <<>>) =>
           /\ (pcO' = "select" /\ ~inputClosed' /\ Len(tasks') < MaxTasks) =>
                (ENABLED RecvTask)'
           /\ (pcO' = "add" /\ i' = parts') => (ENABLED Dispatch)'
           /\ pcO' = "returned" => inputClosed'
           /\ \A u \in Tasks :
                /\ Len(doneOut'[u]) + Len(errOut'[u]) <= 1
                /\ gpc'[u] \in {"defer", "exit"} =>
                     Len(doneOut'[u]) + Len(errOut'[u]) = 1 ]_vars

\* C13 witness: after the failure of one object the orchestrator is selecting
\* with the input open and can receive the next descriptor, while another
\* object has sent its success.
C13_Witness ==
  /\ \E t \in Received : errOut[t] # <<>> /\ gpc[t] = "exit"
  /\ \E u \in Received : doneOut[u] # <<>>
  /\ pcO = "select" /\ ~inputClosed /\ Len(tasks) < MaxTasks
  /\ ENABLED RecvTask

\* C14: on cancellation the Downloader stops admitting, drains the in-flight
\* work, closes doneCh and returns even when tasksCh is never closed: once
\* the ctx.Done() case was taken the orchestrator goes on to swg.Wait() and
\* never back to the select.
C14_CancelLeadsToDrain ==
  [][pcO = "break" => pcO' \in {"break", "wait", "returned"}]_vars

\* C15: the storage of every WorkFile sent agrees with its size: Bytes and
\* TempFile are never both set; size 0 has neither; a size in 1 .. 96 KiB has
\* only Bytes, of length Size; a larger size has only TempFile.
C15_StorageMatchesSize ==
  \A t \in Received : \A k \in 1 .. Len(doneOut[t]) :
    LET w == doneOut[t][k] IN
      /\ w.Size = tasks[t] /\ w.Filename = t
      /\ ~(w.Bytes.id # 0 /\ w.TempFile # "")
      /\ w.Size = 0 => (w.Bytes = NilMem /\ w.TempFile = "")
      /\ (w.Size > 0 /\ w.Size <= 96 * 1024) =>
           (w.Bytes.id # 0 /\ w.Bytes.len = w.Size /\ w.TempFile = "")
      /\ w.Size > 96 * 1024 => (w.Bytes = NilMem /\ w.TempFile # "")

\* C15 witness: one WorkFile of each kind has been sent.
C15_Witness ==
  /\ \E t \in Received : doneOut[t] # <<>> /\ tasks[t] = 0
  /\ \E t \in Received : doneOut[t] # <<>> /\ tasks[t] = 1000
                         /\ doneOut[t][1].Bytes.len = 1000
  /\ \E t \in Received : doneOut[t] # <<>> /\ tasks[t] > 96 * 1024
                         /\ doneOut[t][1].TempFile # ""

\* The in-flight units that own the block b: a unit owns the block it took
\* from a pool until it puts it back or sends it in a WorkFile.
HoldingUnits(b) ==
  {t \in Received : gpc[t] \in {"download", "put"} /\ gmem[t].id = b}

\* The number of owners of the block b among the pools, the in-flight units
\* and the consumer.
Owners(b) ==
  Cardinality({m \in bufPool32 : m.id = b})
    + Cardinality({m \in bufPoolLarge : m.id = b})
    + Cardinality(HoldingUnits(b))
    + Cardinality({m \in consumerBufs : m.id = b})

\* C16: every block is owned by exactly one of a pool, one in-flight unit and
\* the consumer: never by two, and a block that exists is never lost, so no
\* block has leaked when every unit has exited; a unit that uses a block
\* owns one.
C16_SingleOwner ==
  [][ /\ \A b \in Tasks :
           LET before == Owners(b)
               after == Owners(b)' IN
             /\ before <= 1 /\ after <= 1
             /\ before = 1 => after = 1
      /\ \A t \in Tasks :
           gpc'[t] \in {"download", "put"} => gmem'[t].id # 0 ]_vars

\* C16 witness: of three blocks one is in a pool, one is owned by an in-flight
\* unit and one is with the consumer, and a unit that failed has exited.
C16_Witness ==
  /\ \E b \in bufPool32 \cup bufPoolLarge : Owners(b.id) = 1
  /\ \E t \in Received : gpc[t] = "download" /\ Owners(gmem[t].id) = 1
  /\ \E c \in consumerBufs : Owners(c.id) = 1
  /\ \E t \in Received : errOut[t] # <<>> /\ gpc[t] \in {"defer", "exit"}

\* C17: on the in-memory path a read that returns no error and a byte count
\* other than the size yields exactly one ErrorEvent with the object's size
\* and name and no WorkFile, leaves DownloadedFiles alone, and its block is
\* back in its pool when the unit returns, before any limiter unit is released.
C17_ShortWrite ==
  [][\A t \in Tasks :
       /\ (gpc[t] = "download" /\ gpc'[t] # "download"
             /\ ~fetch'[t].err /\ fetch'[t].n # tasks[t]) =>
            /\ gpc'[t] = "put"
            /\ errOut'[t] = <<[Size |-> tasks[t], Filename |-> t, Err |-> "short"]>>
            /\ doneOut'[t] = <<>>
            /\ gmem'[t] = gmem[t] /\ gmem[t].id # 0
            /\ DownloadedFiles' = DownloadedFiles
            /\ swg' = swg
       /\ (gpc[t] = "put" /\ gpc'[t] # "put") =>
            /\ gpc'[t] = "defer" /\ gdi'[t] = 0
            /\ [gmem[t] EXCEPT !.len = gmem[t].cap] \in bufPool32' \cup bufPoolLarge'
            /\ errOut'[t] = errOut[t] /\ Len(errOut[t]) = 1
            /\ doneOut'[t] = <<>>
            /\ DownloadedFiles' = DownloadedFiles
            /\ swg' = swg
       /\ (errOut[t] # <<>> /\ gpc[t] \in {"defer", "exit"}) =>
            /\ errOut'[t] = errOut[t] /\ doneOut'[t] = <<>>
            /\ DownloadedFiles' = DownloadedFiles
                 \/ \E u \in Tasks \ {t} : gpc[u] = "inc" /\ gpc'[u] = "defer"
       /\ gdi'[t] # gdi[t] => (gpc[t] = "defer" /\ gmem[t] = NilMem) ]_vars

\* C17 witness: a unit that reported a short write has exited, its block is
\* in a pool, and the counter counts only the other object's success.
C17_Witness ==
  \E t \in Received :
    /\ gpc[t] = "exit"
    /\ errOut[t] # <<>> /\ errOut[t][1].Err = "short"
    /\ doneOut[t] = <<>>
    /\ \E b \in bufPool32 \cup bufPoolLarge : b.id = t
    /\ DownloadedFiles = 1 /\ swg = 0

\* C18: the dispatch is asynchronous: whatever the earlier units are doing,
\* the orchestrator at the select can receive a descriptor of an open input,
\* can reserve the next unit while the limiter has a free one, and can
\* start the unit once the reservation is complete.
C18_AsynchronousDispatch ==
  /\ (pcO = "select" /\ ~inputClosed /\ Len(tasks) < MaxTasks) => ENABLED RecvTask
  /\ (pcO = "add" /\ i < parts /\ swg < 16) => ENABLED SwgAdd
  /\ (pcO = "add" /\ i = parts) => ENABLED Dispatch

\* C18 witness: while one earlier unit is fetching into memory and another has
\* fetched its parts and not yet sent, the orchestrator has reserved for a
\* third descriptor and can dispatch it.
C18_Witness ==
  /\ \E t, u \in Received : gpc[t] = "download" /\ gpc[u] = "assembled"
  /\ Len(tasks) = 3 /\ gpc[3] = "none"
  /\ pcO = "add" /\ i = parts
  /\ ENABLED Dispatch

\* C19: once the input is closed, and with every dispatched unit finishing,
\* the Downloader closes doneCh and returns, whether or not the cancellation
\* has fired before or fires after.
C19_ClosedInputTerminates ==
  inputClosed ~> (pcO = "returned" /\ closeCount = 1)

\* C19 witness: the Downloader has returned after a cancellation, with the
\* input closed and two objects transferred.
C19_Witness ==
  /\ pcO = "returned" /\ closeCount = 1
  /\ cancelled /\ inputClosed
  /\ Len(tasks) = 2 /\ \A t \in Received : gpc[t] = "exit"

\* C20: the weighted admission is free of deadlock: with every in-flight unit
\* finishing, an orchestrator reserving the 1 or 8 units of a descriptor
\* under the ceiling of 16 completes the reservation and dispatches.
C20_AdmissionProgress ==
  (pcO = "add") ~> (pcO = "select")

\* C20 witness: with two eight-part units in flight the limiter was full,
\* and the third descriptor's eight units have been reserved and dispatched.
C20_Witness ==
  /\ Len(tasks) = 3
  /\ \A t \in Received : gparts[t] = 8
  /\ gpc[3] \in Transferring
  /\ pcO = "select"

====
